---------------------------- MODULE Spec2Model ----------------------------
(***************************************************************************)
(* A model of pyaws: the session resolver (src/pyaws/session.py) and the   *)
(* latest-AMI lookup with its command line (src/pyaws/ec2/current_ami.py). *)
(*                                                                         *)
(* Three specifications share the module:                                  *)
(*   SpecResolver  _profile_prefix and parse_profiles over a local awscli  *)
(*                 configuration store and a file of profile names;        *)
(*   SpecSession   boto3_session, authenticated and init_cli over the      *)
(*                 credentials the environment holds;                      *)
(*   SpecLookup    amazonlinux1 / amazonlinux2 / redhat, one step per      *)
(*                 statement of the per-region loop.                       *)
(* Each leaves the variables of the others at rest.  The program only      *)
(* reads the configuration store and the credentials, and they do not      *)
(* change during a run; what the provider answers is chosen per call.      *)
(*                                                                         *)
(* Text is modelled as sequences of one-character strings, so that         *)
(* str.strip() and the prefix concatenation are computed, not assumed.     *)
(***************************************************************************)
EXTENDS Naturals, Sequences, FiniteSets, TLC

VARIABLES
    config,     \* resolver: the profile names that have a stored aws_access_key_id
    call,       \* resolver: the call made, its arguments and its outcome
    creds,      \* session: the state of the ambient and of each named profile's credentials
    defaultRegion,  \* session: DEFAULT_REGION, read from the process environment at import
    target,     \* session: the <<service, region>> the boto3_session calls of this run ask for
    sess,       \* session: profile argument -> outcome of boto3_session, or NotCalled
    auth,       \* session: profile argument -> outcome of authenticated, or NotCalled
    cli,        \* session: the command line given to init_cli and the run's outcome, or NotRun
    lk          \* lookup: the locals of the running image lookup and the log of its calls

resolverVars == <<config, call>>
sessionVars  == <<creds, defaultRegion, target, sess, auth, cli>>

vars == <<config, call, creds, defaultRegion, target, sess, auth, cli, lk>>

-----------------------------------------------------------------------------
(* Bounds *)

MaxLineLen == 2     \* characters in one line of a profile file
MaxLines   == 2     \* lines in a profile file, items in a profile list
MaxCalls   == 2     \* boto3_session (or authenticated) calls in one run

-----------------------------------------------------------------------------
(* Text *)

\* The characters text is drawn from: a letter and a blank.
Alphabet == {"a", " "}

\* What str.strip() with no argument removes at both ends.
WhiteSpace == {" ", "\t", "\n", "\r"}

\* None, the absent result: a one-element sequence no text can equal.
None == <<"<None>">>

RECURSIVE lstrip(_)
lstrip(s) ==
    IF s = <<>> THEN <<>>
    ELSE IF Head(s) \in WhiteSpace THEN lstrip(Tail(s)) ELSE s

RECURSIVE rstrip(_)
rstrip(s) ==
    IF s = <<>> THEN <<>>
    ELSE IF s[Len(s)] \in WhiteSpace THEN rstrip(SubSeq(s, 1, Len(s) - 1)) ELSE s

\* str.strip()
strip(s) == rstrip(lstrip(s))

\* All texts of at most n characters.
RECURSIVE TextsUpTo(_)
TextsUpTo(n) ==
    IF n = 0 THEN {<<>>}
    ELSE LET shorter == TextsUpTo(n - 1)
         IN  shorter \cup {Append(t, c) : t \in shorter, c \in Alphabet}

Lines == TextsUpTo(MaxLineLen)

\* All sequences of at most n elements of S.
RECURSIVE SeqsUpTo(_, _)
SeqsUpTo(S, n) ==
    IF n = 0 THEN {<<>>}
    ELSE LET shorter == SeqsUpTo(S, n - 1)
         IN  shorter \cup {Append(q, e) : q \in shorter, e \in S}

-----------------------------------------------------------------------------
(* The local awscli configuration store *)

\* The default of _profile_prefix's prefix parameter.
DefaultPrefix == <<"g", "c", "r", "e", "d", "s">>

\* tempProfile = prefix + '-' + profile
TempProfile(prefix, profile) == prefix \o <<"-">> \o profile

\* A name `aws configure get profile.<name>.aws_access_key_id` can address:
\* not empty, and free of the blanks the shell would split the command at.
Addressable(name) ==
    /\ name # <<>>
    /\ \A i \in 1..Len(name) : name[i] \notin WhiteSpace

\* The names that may hold a key: the addressable texts and their prefixed variants.
BaseNames == {t \in Lines : Addressable(t)}

StoreNames == BaseNames \cup {TempProfile(DefaultPrefix, n) : n \in BaseNames}

\* subprocess.getoutput('aws configure get profile.<name>.aws_access_key_id 2>/dev/null'):
\* the stored key, or the empty string; only its truth value is used.
HasAccessKey(cfg, name) == name \in cfg

-----------------------------------------------------------------------------
(* session.py: profile resolution *)

\* Mutant: the prefixed name is tried before the name itself.
profile_prefix_temp_first(cfg, profile, prefix) ==
    IF HasAccessKey(cfg, TempProfile(prefix, profile)) THEN TempProfile(prefix, profile)
    ELSE IF HasAccessKey(cfg, profile) THEN profile
    ELSE None

\* _profile_prefix(profile, prefix)
profile_prefix(cfg, profile, prefix) ==
    IF HasAccessKey(cfg, profile) THEN profile
    ELSE IF HasAccessKey(cfg, TempProfile(prefix, profile)) THEN TempProfile(prefix, profile)
    ELSE None

\* [f(x) for x in xs]
RECURSIVE ResolveEach(_, _)
ResolveEach(cfg, xs) ==
    IF xs = <<>> THEN <<>>
    ELSE <<profile_prefix(cfg, strip(Head(xs)), DefaultPrefix)>> \o ResolveEach(cfg, Tail(xs))

\* for line in f1: profile_list.append(_profile_prefix(line.strip()))
\* (a line is modelled without its newline, which strip() removes anyway)
read_profile_file(cfg, lines) == ResolveEach(cfg, lines)

\* parse_profiles(profiles).  arg.isList tells a list from a string; for a
\* string, fs tells what the file system holds at that path: whether it is a
\* file (os.path.isfile), whether open() succeeds, and its lines.
parse_profiles(cfg, arg, fs) ==
    IF arg.isList
    THEN [raised |-> FALSE, isList |-> TRUE, value |-> ResolveEach(cfg, arg.value)]
    ELSE IF fs.isfile
    THEN IF fs.openable
         THEN [raised |-> FALSE, isList |-> TRUE,
               value |-> read_profile_file(cfg, fs.lines)]
         ELSE [raised |-> TRUE, isList |-> FALSE, value |-> None]
    ELSE [raised |-> FALSE, isList |-> FALSE,
          value |-> profile_prefix(cfg, strip(arg.value), DefaultPrefix)]

-----------------------------------------------------------------------------
(* The credentials the environment holds *)

\* The literal 'default' of boto3_session and of the --profile option.
Default == <<"d", "e", "f", "a", "u", "l", "t">>

\* The named profiles a caller asks for: a base name and its prefixed variant.
NamedProfiles == {<<"a">>, TempProfile(DefaultPrefix, <<"a">>)}

\* The key of the ambient (default-chain) credentials in creds.
Ambient == <<"<ambient>">>

\* What a profile argument may be: None, '', 'default' or a named profile.
ProfileArgs == {None, <<>>, Default} \cup NamedProfiles

\* States of a set of credentials.  At construction of the client:
\*   "partial"      malformed: a BotoCoreError (not a ClientError) is raised
\*   "clienterror"  a ClientError is raised
\* and, the client built, at the identity check:
\*   "valid"        HTTP 200
\*   "odd"          a response whose status is not 200
\*   "invalid"      ClientError, code InvalidClientTokenId
\*   "expired"      ClientError, code ExpiredToken
\*   "denied"       ClientError, another code
\*   "unreachable"  a transport failure, not a ClientError
\* A named profile may also be "missing" from the local configuration.
AmbientStates == {"partial", "clienterror", "valid", "odd", "invalid", "expired",
                  "denied", "unreachable"}
NamedStates   == AmbientStates \cup {"missing"}

Services == {"ec2", "sts"}
Regions  == {"us-east-1", "eu-west-1", "ap-south-1"}

NoClient == [creds |-> None, service |-> "", region |-> ""]

\* The state of the credentials a profile name stands for.
CredState(env, who) == IF who \in DOMAIN env THEN env[who] ELSE "missing"

-----------------------------------------------------------------------------
(* session.py: boto3_session *)

\* boto3.client(service, region_name=region), line 117: the ambient client.
\* Outside the try block, so whatever it raises reaches the caller.
default_client(env, service, region, warned, named) ==
    IF CredState(env, Ambient) = "clienterror"
    THEN [raised |-> "ClientError", client |-> NoClient, warned |-> warned,
          named |-> named, ambient |-> 1]
    ELSE IF CredState(env, Ambient) = "partial"
    THEN [raised |-> "BotoCoreError", client |-> NoClient, warned |-> warned,
          named |-> named, ambient |-> 1]
    ELSE [raised |-> "none",
          client |-> [creds |-> Ambient, service |-> service, region |-> region],
          warned |-> warned, named |-> named, ambient |-> 1]

\* Mutant: ProfileNotFound is re-raised like a ClientError instead of recovered.
boto3_session_raise_missing(env, service, region, profile) ==
    IF profile # None /\ profile # <<>> /\ profile # Default
    THEN IF CredState(env, profile) \in {"clienterror", "missing"}
         THEN [raised |-> "ClientError", client |-> NoClient, warned |-> FALSE,
               named |-> 1, ambient |-> 0]
         ELSE IF CredState(env, profile) = "partial"
         THEN [raised |-> "BotoCoreError", client |-> NoClient, warned |-> FALSE,
               named |-> 1, ambient |-> 0]
         ELSE [raised |-> "none",
               client |-> [creds |-> profile, service |-> service, region |-> region],
               warned |-> FALSE, named |-> 1, ambient |-> 0]
    ELSE default_client(env, service, region, FALSE, 0)

\* Mutant: only an absent profile selects the ambient client; 'default' is
\* looked up as a named profile.
boto3_session_default_named(env, service, region, profile) ==
    IF profile # None /\ profile # <<>>
    THEN IF CredState(env, profile) = "missing"
         THEN default_client(env, service, region, TRUE, 1)
         ELSE [raised |-> "none",
               client |-> [creds |-> profile, service |-> service, region |-> region],
               warned |-> FALSE, named |-> 1, ambient |-> 0]
    ELSE default_client(env, service, region, FALSE, 0)

\* boto3_session(service, region, profile).  The outcome tells what was raised
\* ("none" when a client is returned), the client, whether the caller was
\* warned, and how many named sessions and ambient clients were constructed.
boto3_session(env, service, region, profile) ==
    IF profile # None /\ profile # <<>> /\ profile # Default
    THEN \* session = boto3.Session(profile_name=profile); session.client(...)
         IF CredState(env, profile) = "clienterror"
         THEN \* except ClientError: logger.exception(...); raise
              [raised |-> "ClientError", client |-> NoClient, warned |-> FALSE,
               named |-> 1, ambient |-> 0]
         ELSE IF CredState(env, profile) = "missing"
         THEN \* except ProfileNotFound: stdout_message, logger.warning, fall to line 117
              default_client(env, service, region, TRUE, 1)
         ELSE IF CredState(env, profile) = "partial"
         THEN \* no handler matches
              [raised |-> "BotoCoreError", client |-> NoClient, warned |-> FALSE,
               named |-> 1, ambient |-> 0]
         ELSE [raised |-> "none",
               client |-> [creds |-> profile, service |-> service, region |-> region],
               warned |-> FALSE, named |-> 1, ambient |-> 0]
    ELSE default_client(env, service, region, FALSE, 0)

-----------------------------------------------------------------------------
(* session.py: authenticated *)

\* sts_client.get_caller_identity(): what the identity service answers to the
\* credentials the client carries.
get_caller_identity(env, client) ==
    LET st == CredState(env, client.creds)
    IN  IF st = "valid" THEN [raised |-> "none", code |-> "", status |-> 200]
        ELSE IF st = "odd" THEN [raised |-> "none", code |-> "", status |-> 500]
        ELSE IF st = "invalid"
        THEN [raised |-> "ClientError", code |-> "InvalidClientTokenId", status |-> 403]
        ELSE IF st = "expired"
        THEN [raised |-> "ClientError", code |-> "ExpiredToken", status |-> 403]
        ELSE IF st = "denied"
        THEN [raised |-> "ClientError", code |-> "AccessDenied", status |-> 403]
        ELSE [raised |-> "EndpointConnectionError", code |-> "", status |-> 0]

\* The except ClientError clause of authenticated: log by error code, then
\* fall through to the final return False.
auth_client_error(code, checked) ==
    [value |-> FALSE, raised |-> FALSE, checked |-> checked,
     logged |-> IF code = "InvalidClientTokenId" THEN "info:invalid"
                ELSE IF code = "ExpiredToken" THEN "info:expired"
                ELSE "exception:unknown"]

\* Mutant: any response without an exception counts as authenticated.
authenticated_any_status(env, region, profile) ==
    LET s == boto3_session(env, "sts", region, profile)
    IN  IF s.raised = "ClientError" THEN auth_client_error("", None)
        ELSE IF s.raised # "none"
        THEN [value |-> FALSE, raised |-> FALSE, checked |-> None, logged |-> ""]
        ELSE LET r == get_caller_identity(env, s.client)
             IN  IF r.raised = "ClientError" THEN auth_client_error(r.code, s.client.creds)
                 ELSE [value |-> r.raised = "none", raised |-> FALSE,
                       checked |-> s.client.creds, logged |-> ""]

\* authenticated(profile); region is the DEFAULT_REGION boto3_session defaults to.
\* The outcome: the boolean returned, whether anything was raised to the
\* caller, and whose credentials the identity check was made with.
authenticated(env, region, profile) ==
    LET s == boto3_session(env, "sts", region, profile)
    IN  IF s.raised = "ClientError" THEN auth_client_error("", None)
        ELSE IF s.raised # "none"
        THEN \* except Exception: return False
             [value |-> FALSE, raised |-> FALSE, checked |-> None, logged |-> ""]
        ELSE LET r == get_caller_identity(env, s.client)
             IN  IF r.raised = "ClientError" THEN auth_client_error(r.code, s.client.creds)
                 ELSE IF r.raised # "none"
                 THEN [value |-> FALSE, raised |-> FALSE,
                       checked |-> s.client.creds, logged |-> ""]
                 ELSE [value |-> r.status = 200, raised |-> FALSE,
                       checked |-> s.client.creds, logged |-> ""]

-----------------------------------------------------------------------------
(* current_ami.py: the command line *)

VALID_AMI_TYPES == {"amazonlinux1", "amazonlinux2", "redhat", "ubuntu14.04", "ubuntu16.04"}
VALID_FORMATS   == {"json", "text"}

\* The names current_ami.py binds at module level: its imports, its globals
\* (lines 21-24) and its functions.  `debug`, `image` and `profile` are read
\* by main and init_cli and bound nowhere.
ModuleGlobals ==
    {"argparse", "os", "sys", "json", "inspect", "highlight", "lexers", "formatters",
     "boto3", "logd", "__version__", "ClientError", "authenticated", "boto3_session",
     "stdout_message", "export_json_object", "exit_codes", "logger",
     "VALID_AMI_TYPES", "VALID_FORMATS", "DEFAULT_REGION", "get_regions",
     "amazonlinux1", "amazonlinux2", "redhat", "main", "options", "init_cli"}

\* Reading a global name raises NameError unless the module binds it.
Bound(name) == name \in ModuleGlobals

\* An uncaught exception ends the interpreter with a traceback (status 1):
\* none of the exit_codes entries.
Traceback == "traceback"

\* main(profile, imagetype, format, filename), up to the start of the lookup
\* and, for a lookup that returns, to the end.  exit "return" means main
\* returned to init_cli.
main(imagetype, format, filename) ==
    LET first == imagetype \in {"amazonlinux1", "aml1"}
    IN  IF first /\ ~Bound("debug")
        THEN [exit |-> Traceback, lookups |-> 0]      \* amazonlinux1(..., debug=debug)
        ELSE IF ~first /\ ~Bound("image")
        THEN [exit |-> Traceback, lookups |-> 0]      \* elif image in (...)
        ELSE IF ~first
        THEN [exit |-> Traceback, lookups |-> 0]      \* `latest` is unbound below
        ELSE IF format = "json" THEN [exit |-> "EX_OK", lookups |-> 1]
        ELSE [exit |-> "return", lookups |-> 1]

\* init_cli().  argv: whether arguments were given (len(sys.argv) > 1), how
\* parse_args ended, and the parsed arguments.  The outcome: the exit status,
\* the number of authenticated() calls and of lookups started, and the
\* messages shown to the user.  (Lines 208 and 258 are read with the
\* closing parenthesis and the comma they lack.)
init_cli(env, region, argv) ==
    IF argv.parse = "SystemExit" THEN
        \* argparse ends the run itself; SystemExit is no Exception
        [exit |-> "usage", auth |-> 0, lookups |-> 0, messages |-> <<>>]
    ELSE IF argv.parse = "Exception" THEN
        [exit |-> "E_MISC", auth |-> 0, lookups |-> 0, messages |-> <<"ERROR">>]
    ELSE IF ~Bound("debug") THEN
        \* if debug:
        [exit |-> Traceback, auth |-> 0, lookups |-> 0, messages |-> <<>>]
    ELSE IF ~argv.given THEN
        [exit |-> "EX_OK", auth |-> 0, lookups |-> 0, messages |-> <<>>]
    ELSE IF authenticated(env, region, argv.profile).value THEN
        IF argv.image # ""
        THEN LET m == main(argv.image, argv.format, argv.filename)
             IN  [exit |-> IF m.exit = "return" THEN "E_MISC" ELSE m.exit,
                  auth |-> 1, lookups |-> m.lookups, messages |-> <<>>]
        ELSE [exit |-> "E_DEPENDENCY", auth |-> 1, lookups |-> 0, messages |-> <<"INFO">>]
    ELSE IF ~Bound("profile") THEN
        \* 'Authenication Failed ... for user %s' % profile
        [exit |-> Traceback, auth |-> 1, lookups |-> 0, messages |-> <<>>]
    ELSE
        [exit |-> "E_AUTHFAIL", auth |-> 1, lookups |-> 0, messages |-> <<"AUTH">>]

-----------------------------------------------------------------------------
(* current_ami.py: the image lookups amazonlinux1, amazonlinux2, redhat *)

LookupFunctions == {"amazonlinux1", "amazonlinux2", "redhat"}

\* The Filters 'name' values each lookup sends (lines 66, 116-117, 164).
NameFilter(fn) ==
    IF fn = "amazonlinux1" THEN {"amzn-ami-hvm-2018.??.?.2018????-x86_64-gp2"}
    ELSE IF fn = "amazonlinux2"
    THEN {"amzn2-ami-hvm-????.??.?.2018????.?-x86_64-gp2",
          "amzn2-ami-hvm-????.??.?.2018????-x86_64-gp2"}
    ELSE {}

\* What the provider may answer to describe_images: one image, two images,
\* none, a ClientError, or a transport failure (a BotoCoreError).
ImageAnswers == {"one", "two", "empty", "clienterror", "transport"}

\* The k-th image the provider lists for a region.
Image(region, k) == [ImageId |-> <<"ami", region, k>>, Name |-> <<"name", region, k>>]

\* r['Images'] of an answer that carries a response.
Images(region, answer) ==
    IF answer = "one" THEN <<Image(region, 1)>>
    ELSE IF answer = "two" THEN <<Image(region, 1), Image(region, 2)>>
    ELSE <<>>

\* The orders a set can be listed in.
Orders(S) ==
    {q \in [1..Cardinality(S) -> S] : \A i, j \in 1..Cardinality(S) : q[i] = q[j] => i = j}

\* What describe_regions may answer: the regions in some order, or an error.
RegionAnswers ==
    {[raises |-> "none", regions |-> q] : q \in Orders(Regions)}
    \cup {[raises |-> e, regions |-> <<>>] : e \in {"ClientError", "BotoCoreError"}}

\* A dict: its keys and the value of each.
EmptyDict == [keys |-> {}, val |-> [r \in Regions |-> None]]

DictSet(d, k, v) == [keys |-> d.keys \cup {k}, val |-> [d.val EXCEPT ![k] = v]]

LookupIdle ==
    [pc |-> "idle", fn |-> "", profile |-> None, region |-> "",
     args |-> [profile |-> None, region |-> ""], detailed |-> FALSE, regions |-> <<>>, idx |-> 0, client |-> 0, nextId |-> 1,
     r |-> <<>>, amis |-> EmptyDict, metadata |-> EmptyDict, log |-> <<>>,
     raised |-> "none", result |-> EmptyDict]

\* The log entry of a boto3_session call: id is the client it returned, 0
\* when it raised; `for` tells the call it was made for.
SessionEvent(region, profile, id, for) ==
    [ev |-> "session", service |-> "ec2", region |-> region, profile |-> profile,
     id |-> id, for |-> for]

\* if profile: ...
Truthy(profile) == profile # None /\ profile # <<>>

\* Lines 50-54: amis, metadata = {}, {}; regions = [region] when a region is
\* given, else get_regions is called next.  region "" is the absent argument.
lookup_begin(fn, profile, region, detailed) ==
    [LookupIdle EXCEPT
        !.pc = IF region # "" THEN "loop" ELSE "get_regions",
        !.fn = fn, !.profile = profile, !.region = region,
        !.args = [profile |-> profile, region |-> region],
        !.detailed = detailed,
        !.regions = IF region # "" THEN <<region>> ELSE <<>>,
        !.idx = 1]

\* get_regions(profile): a client for 'ec2' in the default region, then
\* describe_regions.  answer is the provider's.  The ClientError of the
\* client's construction is logged and re-raised; nothing else is caught.
get_regions(l, env, region, answer) ==
    LET s == boto3_session(env, "ec2", region, l.profile)
    IN  IF s.raised # "none"
        THEN [l EXCEPT !.pc = "raised", !.raised = s.raised,
                       !.log = Append(@, SessionEvent(region, l.profile, 0, "regions"))]
        ELSE LET opened == SessionEvent(region, l.profile, l.nextId, "regions")
                 asked  == [ev |-> "regions", region |-> region, id |-> l.nextId,
                            answer |-> answer]
             IN  IF answer.raises # "none"
                 THEN [l EXCEPT !.pc = "raised", !.raised = answer.raises,
                                !.nextId = @ + 1,
                                !.log = @ \o <<opened, asked>>]
                 ELSE [l EXCEPT !.pc = "loop", !.regions = answer.regions, !.idx = 1,
                                !.nextId = @ + 1,
                                !.log = @ \o <<opened, asked>>]

\* Mutant: the client of the first region is kept and used for the others.
loop_session_cached(l, env) ==
    LET region  == l.regions[l.idx]
        profile == IF l.fn = "amazonlinux2" /\ ~Truthy(l.profile) THEN Default ELSE l.profile
        s       == boto3_session(env, "ec2", region, profile)
    IN  IF l.client # 0
        THEN [l EXCEPT !.pc = "query", !.profile = profile, !.region = region]
        ELSE IF s.raised = "ClientError"
        THEN [l EXCEPT !.profile = profile, !.region = region, !.idx = @ + 1,
                       !.log = Append(@, SessionEvent(region, profile, 0, "images"))]
        ELSE IF s.raised # "none"
        THEN [l EXCEPT !.pc = "raised", !.raised = s.raised,
                       !.profile = profile, !.region = region,
                       !.log = Append(@, SessionEvent(region, profile, 0, "images"))]
        ELSE [l EXCEPT !.pc = "query", !.profile = profile, !.region = region,
                       !.client = l.nextId, !.nextId = @ + 1,
                       !.log = Append(@, SessionEvent(region, profile, l.nextId, "images"))]

\* The head of one iteration of `for region in regions`: (amazonlinux2 only:
\* `if not profile: profile = 'default'`), then
\* client = boto3_session(service='ec2', region=region, profile=profile).
\* A ClientError is logged and the loop continues; anything else is re-raised.
\* A session event with id 0 is an acquisition that raised.
loop_session(l, env) ==
    LET region  == l.regions[l.idx]
        profile == IF l.fn = "amazonlinux2" /\ ~Truthy(l.profile) THEN Default ELSE l.profile
        s       == boto3_session(env, "ec2", region, profile)
    IN  IF s.raised = "ClientError"
        THEN [l EXCEPT !.profile = profile, !.region = region, !.idx = @ + 1,
                       !.log = Append(@, SessionEvent(region, profile, 0, "images"))]
        ELSE IF s.raised # "none"
        THEN [l EXCEPT !.pc = "raised", !.raised = s.raised,
                       !.profile = profile, !.region = region,
                       !.log = Append(@, SessionEvent(region, profile, 0, "images"))]
        ELSE [l EXCEPT !.pc = "query", !.profile = profile, !.region = region,
                       !.client = l.nextId, !.nextId = @ + 1,
                       !.log = Append(@, SessionEvent(region, profile, l.nextId, "images"))]

\* r = client.describe_images(Owners=['amazon'], Filters=[...]): a ClientError
\* is logged and the loop continues; anything else is re-raised.
loop_query(l, answer) ==
    LET asked == [ev |-> "images", region |-> l.region, id |-> l.client,
                  answer |-> answer, filter |-> NameFilter(l.fn)]
    IN  IF answer = "clienterror"
        THEN [l EXCEPT !.pc = "loop", !.idx = @ + 1, !.log = Append(@, asked)]
        ELSE IF answer = "transport"
        THEN [l EXCEPT !.pc = "raised", !.raised = "BotoCoreError", !.log = Append(@, asked)]
        ELSE [l EXCEPT !.pc = "metadata", !.r = Images(l.region, answer),
                       !.log = Append(@, asked)]

\* Mutant: a region without images is recorded with a placeholder.
loop_store_metadata_placeholder(l) ==
    IF l.r = <<>>
    THEN [l EXCEPT !.pc = "loop", !.idx = @ + 1,
                   !.metadata = DictSet(@, l.region, None),
                   !.amis = DictSet(@, l.region, None)]
    ELSE [l EXCEPT !.pc = "amis", !.metadata = DictSet(@, l.region, l.r[1])]

\* metadata[region] = r['Images'][0]: an IndexError when the list is empty,
\* which `except Exception` logs and re-raises.
loop_store_metadata(l) ==
    IF l.r = <<>>
    THEN [l EXCEPT !.pc = "raised", !.raised = "IndexError"]
    ELSE [l EXCEPT !.pc = "amis", !.metadata = DictSet(@, l.region, l.r[1])]

\* amis[region] = r['Images'][0]['ImageId'], the end of the iteration.
loop_store_amis(l) ==
    [l EXCEPT !.pc = "loop", !.idx = @ + 1,
              !.amis = DictSet(@, l.region, l.r[1].ImageId)]

\* if detailed: return metadata; return amis
lookup_return(l) ==
    [l EXCEPT !.pc = "returned", !.result = IF l.detailed THEN l.metadata ELSE l.amis]

-----------------------------------------------------------------------------
(* Session: state machine.  A run is a series of boto3_session calls for   *)
(* one service and region, a series of authenticated calls, or one run of  *)
(* the command line; the credentials are only read.                        *)

NotCalled == [raised |-> "not called"]
NotRun    == [exit |-> "not run"]
NoTarget  == <<"", "">>

Untouched == [p \in ProfileArgs |-> NotCalled]

Called(f) == {p \in ProfileArgs : f[p] # NotCalled}

\* The session variables of a run that does not use them.
SessionIdle ==
    /\ creds = [w \in {Ambient} \cup NamedProfiles |-> "valid"]
    /\ defaultRegion = "us-east-1"
    /\ target = NoTarget
    /\ sess = Untouched
    /\ auth = Untouched
    /\ cli = NotRun

ResolverIdle ==
    /\ config = {}
    /\ call = [op |-> "none"]

InitSession ==
    /\ creds \in [{Ambient} \cup NamedProfiles -> NamedStates]
    /\ creds[Ambient] \in AmbientStates
    /\ defaultRegion \in Regions
    /\ target = NoTarget
    /\ sess = Untouched
    /\ auth = Untouched
    /\ cli = NotRun
    /\ ResolverIdle
    /\ lk = LookupIdle

\* boto3_session(service, region, profile)
CallBoto3Session ==
    /\ auth = Untouched
    /\ cli = NotRun
    /\ Cardinality(Called(sess)) < MaxCalls
    /\ \E service \in Services, region \in Regions, profile \in ProfileArgs :
           /\ target \in {NoTarget, <<service, region>>}
           /\ sess[profile] = NotCalled
           /\ target' = <<service, region>>
           /\ sess' = [sess EXCEPT ![profile] = boto3_session(creds, service, region, profile)]
    /\ UNCHANGED <<creds, defaultRegion, auth, cli, resolverVars, lk>>

\* authenticated(profile)
CallAuthenticated ==
    /\ sess = Untouched
    /\ cli = NotRun
    /\ Cardinality(Called(auth)) < MaxCalls
    /\ \E profile \in ProfileArgs :
           /\ auth[profile] = NotCalled
           /\ auth' = [auth EXCEPT ![profile] = authenticated(creds, defaultRegion, profile)]
    /\ UNCHANGED <<creds, defaultRegion, target, sess, cli, resolverVars, lk>>

\* The command lines init_cli is run with.
CommandLines ==
    {[given |-> FALSE, parse |-> "ok", profile |-> Default, image |-> "",
      format |-> "json", filename |-> ""]}
    \cup {[given |-> TRUE, parse |-> e, profile |-> Default, image |-> "",
           format |-> "json", filename |-> ""] : e \in {"SystemExit", "Exception"}}
    \cup {[given |-> TRUE, parse |-> "ok", profile |-> p, image |-> i,
           format |-> f, filename |-> n] :
              p \in {None, Default} \cup NamedProfiles, i \in VALID_AMI_TYPES \cup {""},
              f \in VALID_FORMATS, n \in {"", "amis.json"}}

\* init_cli()
RunInitCli ==
    /\ sess = Untouched
    /\ auth = Untouched
    /\ cli = NotRun
    /\ \E argv \in CommandLines :
           cli' = [argv |-> argv, exit |-> init_cli(creds, defaultRegion, argv).exit,
                   outcome |-> init_cli(creds, defaultRegion, argv)]
    /\ UNCHANGED <<creds, defaultRegion, target, sess, auth, resolverVars, lk>>

NextSession ==
    \/ CallBoto3Session
    \/ CallAuthenticated
    \/ RunInitCli

SpecSession == InitSession /\ [][NextSession]_vars

-----------------------------------------------------------------------------
(* Resolver: state machine.  A run is either one parse_profiles call or a   *)
(* _profile_prefix call and its repetition; the store is only read.        *)

NoCall == [op |-> "none"]

InitResolver ==
    /\ config \in SUBSET StoreNames
    /\ call = NoCall
    /\ SessionIdle
    /\ lk = LookupIdle

\* _profile_prefix(profile) with the default prefix.
CallProfilePrefix ==
    /\ call = NoCall
    /\ \E profile \in Lines :
           call' = [op |-> "_profile_prefix", profile |-> profile, calls |-> 1,
                    result |-> profile_prefix(config, profile, DefaultPrefix),
                    again |-> None]
    /\ UNCHANGED <<config, sessionVars, lk>>

\* The same call once more, the configuration store unchanged.
RepeatProfilePrefix ==
    /\ call.op = "_profile_prefix"
    /\ call.calls = 1
    /\ call' = [call EXCEPT !.calls = 2,
                            !.again = profile_prefix(config, call.profile, DefaultPrefix)]
    /\ UNCHANGED <<config, sessionVars, lk>>

\* parse_profiles(path), path naming an existing file that opens.
CallParseProfilesFile ==
    /\ call = NoCall
    /\ \E path \in BaseNames, lines \in SeqsUpTo(Lines, MaxLines) :
           call' = [op |-> "parse_profiles", form |-> "file", lines |-> lines,
                    result |-> parse_profiles(config,
                                   [isList |-> FALSE, value |-> path],
                                   [isfile |-> TRUE, openable |-> TRUE, lines |-> lines])]
    /\ UNCHANGED <<config, sessionVars, lk>>

\* parse_profiles(path), the file gone or unreadable between isfile() and open().
CallParseProfilesFileLost ==
    /\ call = NoCall
    /\ \E path \in BaseNames :
           call' = [op |-> "parse_profiles", form |-> "lost",
                    result |-> parse_profiles(config,
                                   [isList |-> FALSE, value |-> path],
                                   [isfile |-> TRUE, openable |-> FALSE, lines |-> <<>>])]
    /\ UNCHANGED <<config, sessionVars, lk>>

\* parse_profiles(name), name not the path of a file.
CallParseProfilesName ==
    /\ call = NoCall
    /\ \E name \in Lines :
           call' = [op |-> "parse_profiles", form |-> "name", name |-> name,
                    result |-> parse_profiles(config,
                                   [isList |-> FALSE, value |-> name],
                                   [isfile |-> FALSE, openable |-> FALSE, lines |-> <<>>])]
    /\ UNCHANGED <<config, sessionVars, lk>>

\* parse_profiles([name, ...])
CallParseProfilesList ==
    /\ call = NoCall
    /\ \E items \in SeqsUpTo(Lines, MaxLines) :
           call' = [op |-> "parse_profiles", form |-> "list", items |-> items,
                    result |-> parse_profiles(config,
                                   [isList |-> TRUE, value |-> items],
                                   [isfile |-> FALSE, openable |-> FALSE, lines |-> <<>>])]
    /\ UNCHANGED <<config, sessionVars, lk>>

NextResolver ==
    \/ CallProfilePrefix
    \/ RepeatProfilePrefix
    \/ CallParseProfilesFile
    \/ CallParseProfilesFileLost
    \/ CallParseProfilesName
    \/ CallParseProfilesList

SpecResolver == InitResolver /\ [][NextResolver]_vars

-----------------------------------------------------------------------------
(* Lookup: state machine.  One lookup runs, a step per statement; what the *)
(* provider answers is chosen when it is asked.                            *)

\* The credential states a lookup is run under.
LookupStates == {"valid", "missing", "clienterror", "partial"}

InitLookup ==
    /\ creds \in [{Ambient} \cup NamedProfiles -> LookupStates]
    /\ creds[Ambient] # "missing"
    /\ creds[TempProfile(DefaultPrefix, <<"a">>)] = "valid"
    /\ defaultRegion \in Regions
    /\ target = NoTarget
    /\ sess = Untouched
    /\ auth = Untouched
    /\ cli = NotRun
    /\ ResolverIdle
    /\ lk = LookupIdle

\* amazonlinux1(...), amazonlinux2(...) or redhat(...) is called.
LookupStart ==
    /\ lk.pc = "idle"
    /\ \E fn \in LookupFunctions, profile \in {None, Default, <<"a">>},
          region \in Regions \cup {""}, detailed \in BOOLEAN :
           lk' = lookup_begin(fn, profile, region, detailed)
    /\ UNCHANGED <<resolverVars, sessionVars>>

\* regions = get_regions(profile=profile)
GetRegions ==
    /\ lk.pc = "get_regions"
    /\ \E answer \in RegionAnswers :
           lk' = get_regions(lk, creds, defaultRegion, answer)
    /\ UNCHANGED <<resolverVars, sessionVars>>

\* The next region's client.
AcquireSession ==
    /\ lk.pc = "loop"
    /\ lk.idx <= Len(lk.regions)
    /\ lk' = loop_session(lk, creds)
    /\ UNCHANGED <<resolverVars, sessionVars>>

\* The region's image query.
DescribeImages ==
    /\ lk.pc = "query"
    /\ \E answer \in ImageAnswers : lk' = loop_query(lk, answer)
    /\ UNCHANGED <<resolverVars, sessionVars>>

StoreMetadata ==
    /\ lk.pc = "metadata"
    /\ lk' = loop_store_metadata(lk)
    /\ UNCHANGED <<resolverVars, sessionVars>>

StoreAmi ==
    /\ lk.pc = "amis"
    /\ lk' = loop_store_amis(lk)
    /\ UNCHANGED <<resolverVars, sessionVars>>

\* The loop is over: the mapping is returned.
LookupReturn ==
    /\ lk.pc = "loop"
    /\ lk.idx > Len(lk.regions)
    /\ lk' = lookup_return(lk)
    /\ UNCHANGED <<resolverVars, sessionVars>>

NextLookup ==
    \/ LookupStart
    \/ GetRegions
    \/ AcquireSession
    \/ DescribeImages
    \/ StoreMetadata
    \/ StoreAmi
    \/ LookupReturn

SpecLookup == InitLookup /\ [][NextLookup]_vars

-----------------------------------------------------------------------------
(* Claims about the resolver, checked under SpecResolver *)

NonBlank(lines) == SelectSeq([i \in 1..Len(lines) |-> strip(lines[i])], LAMBDA t : t # <<>>)

\* C6 as stated: parse_profiles on an existing file with N non-blank lines
\* returns exactly N entries, entry i the resolution of the stripped i-th
\* non-blank line, in file order; blank lines add no entry.
C6_OnePerNonBlankLine ==
    (call.op = "parse_profiles" /\ call.form = "file") =>
        LET want == NonBlank(call.lines)
        IN  /\ ~call.result.raised
            /\ Len(call.result.value) = Len(want)
            /\ \A i \in 1..Len(want) :
                   call.result.value[i] = profile_prefix(config, want[i], DefaultPrefix)

-----------------------------------------------------------------------------
(* Claims about sessions, checked under SpecSession *)

\* The credentials a profile argument ends up using when a client is built.
EffectiveCreds(p) ==
    IF p \in NamedProfiles /\ creds[p] # "missing" THEN p ELSE Ambient

\* C3: authenticated returns true only when the identity check answers HTTP
\* 200; for InvalidClientTokenId, ExpiredToken, any other client error and any
\* other exception, while acquiring the session or checking the identity, it
\* returns false, and it never raises.
C3_AuthenticatedTotal ==
    \A p \in Called(auth) :
        /\ auth[p].raised = FALSE
        /\ auth[p].value \in BOOLEAN
        /\ (auth[p].value => creds[EffectiveCreds(p)] = "valid")
        /\ (creds[EffectiveCreds(p)] \in {"partial", "clienterror", "odd", "invalid",
                                          "expired", "denied", "unreachable"}
               => auth[p].value = FALSE)

\* C3, its case: the identity service answers 403 InvalidClientTokenId to a
\* named profile's credentials and authenticated returns False.
C3_Witness ==
    \E p \in NamedProfiles \cap Called(auth) :
        /\ creds[p] = "invalid"
        /\ auth[p].value = FALSE
        /\ auth[p].logged = "info:invalid"

\* C4: boto3_session with profile "default" and with an absent profile behave
\* the same: no named-profile session is constructed, and the client returned
\* is the ambient one for the service and region asked for.
C4_DefaultIsAbsent ==
    /\ \A p \in {None, Default} \cap Called(sess) :
           /\ sess[p].named = 0
           /\ ~sess[p].warned
           /\ sess[p].raised = "none" =>
                  sess[p].client = [creds |-> Ambient, service |-> target[1],
                                    region |-> target[2]]
    /\ ({None, Default} \subseteq Called(sess) => sess[None] = sess[Default])

\* C4, its case: both calls made, both returned a client.
C4_Witness ==
    /\ {None, Default} \subseteq Called(sess)
    /\ sess[None].raised = "none"
    /\ sess[Default].raised = "none"

\* C5 as stated: for a named profile missing from the local configuration
\* boto3_session does not raise: it warns and returns the ambient client for
\* the same service and region; any other failure while constructing the
\* named-profile client is raised, with no retry and no fallback client.
C5_MissingProfileNeverRaises ==
    \A p \in NamedProfiles \cap Called(sess) :
        /\ creds[p] = "missing" =>
               /\ sess[p].raised = "none"
               /\ sess[p].warned
               /\ sess[p].client = [creds |-> Ambient, service |-> target[1],
                                    region |-> target[2]]
        /\ creds[p] \in {"partial", "clienterror"} =>
               /\ sess[p].raised # "none"
               /\ sess[p].client = NoClient
               /\ sess[p].named = 1
               /\ sess[p].ambient = 0

\* C5 as amended: for a named profile missing from the local configuration
\* ProfileNotFound does not reach the caller: the caller is warned and the
\* ambient client is constructed once for the same service and region and
\* returned, or what that construction raises is raised (line 117 is outside
\* the try block); any other failure while constructing the named-profile
\* client is raised, with no retry and no fallback client.
C5_MissingProfileFallsBack ==
    \A p \in NamedProfiles \cap Called(sess) :
        /\ creds[p] = "missing" =>
               /\ sess[p].warned
               /\ sess[p].named = 1
               /\ sess[p].ambient = 1
               /\ creds[Ambient] \notin {"partial", "clienterror"} =>
                      /\ sess[p].raised = "none"
                      /\ sess[p].client = [creds |-> Ambient, service |-> target[1],
                                           region |-> target[2]]
               /\ creds[Ambient] = "partial" => sess[p].raised = "BotoCoreError"
               /\ creds[Ambient] = "clienterror" => sess[p].raised = "ClientError"
        /\ creds[p] \in {"partial", "clienterror"} =>
               /\ sess[p].raised # "none"
               /\ sess[p].client = NoClient
               /\ ~sess[p].warned
               /\ sess[p].named = 1
               /\ sess[p].ambient = 0

\* C5, its case: a missing profile answered by the ambient client, with a warning.
C5_Witness ==
    \E p \in NamedProfiles \cap Called(sess) :
        /\ creds[p] = "missing"
        /\ sess[p].raised = "none"
        /\ sess[p].warned
        /\ sess[p].client.creds = Ambient

\* C10: for a named profile P missing from the local configuration,
\* authenticated(P) gives the verdict of the ambient credentials: the identity
\* check is made with them, never with P's, and the result equals that of
\* authenticated("default").
C10_MissingProfileAuthIsAmbient ==
    \A p \in NamedProfiles \cap Called(auth) :
        creds[p] = "missing" =>
            /\ auth[p].checked # p
            /\ auth[p].value => auth[p].checked = Ambient
            /\ auth[p].value = (creds[Ambient] = "valid")
            /\ Default \in Called(auth) => auth[p].value = auth[Default].value

\* C10, its case: a missing profile reported authenticated, as "default" is.
C10_Witness ==
    \E p \in NamedProfiles \cap Called(auth) :
        /\ creds[p] = "missing"
        /\ Default \in Called(auth)
        /\ auth[p].value
        /\ auth[Default].value

\* C7 as stated: given arguments, when the authentication gate answers false
\* the run ends with exit status E_AUTHFAIL after a message to the user, no
\* lookup is started, and authenticated is called at most once.
C7_AuthFailureExit ==
    (/\ cli # NotRun
     /\ cli.argv.given
     /\ cli.argv.parse = "ok"
     /\ ~authenticated(creds, defaultRegion, cli.argv.profile).value) =>
        /\ cli.exit = "E_AUTHFAIL"
        /\ cli.outcome.messages = <<"AUTH">>
        /\ cli.outcome.lookups = 0
        /\ cli.outcome.auth <= 1

-----------------------------------------------------------------------------
(* Claims about the image lookups, checked under SpecLookup *)

\* The log's entries of one kind, in order.
ImageQueries  == SelectSeq(lk.log, LAMBDA e : e.ev = "images")
LoopSessions  == SelectSeq(lk.log, LAMBDA e : e.ev = "session" /\ e.for = "images")
Enumerations  == SelectSeq(lk.log, LAMBDA e : e.ev \in {"regions"}
                                              \/ (e.ev = "session" /\ e.for = "regions"))

\* The regions whose image query was issued and returned at least one image.
Answered == {ImageQueries[i].region :
                i \in {j \in 1..Len(ImageQueries) : ImageQueries[j].answer \in {"one", "two"}}}

\* The last entry of the log is an image query that failed or found nothing.
LastQueryFailed ==
    /\ lk.log # <<>>
    /\ lk.log[Len(lk.log)].ev = "images"
    /\ lk.log[Len(lk.log)].answer \in {"empty", "clienterror", "transport"}

\* C1 as stated: a region whose image query fails or returns no images is
\* skipped and the loop goes on: no exception reaches the caller, and the
\* mapping returned holds exactly the regions that returned an image (region A
\* alone, of A with one image, B with none and C with a transport error).
C1_FailedRegionSkipped ==
    /\ LastQueryFailed => lk.pc # "raised"
    /\ lk.pc = "returned" => lk.result.keys = Answered

\* C8: at every point of a lookup and in the mapping it returns, every key is
\* a region whose image query was issued and returned at least one image, and
\* its value is that region's first image (or its id), never a placeholder;
\* with a region argument the regions are never enumerated and the keys are
\* within that one region.
C8_KeysAreAnsweredRegions ==
    /\ \A r \in lk.metadata.keys :
           r \in Answered /\ lk.metadata.val[r] = Image(r, 1)
    /\ \A r \in lk.amis.keys :
           r \in Answered /\ lk.amis.val[r] = Image(r, 1).ImageId
    /\ \A r \in lk.result.keys :
           /\ r \in Answered
           /\ lk.detailed => lk.result.val[r] = Image(r, 1)
           /\ ~lk.detailed => lk.result.val[r] = Image(r, 1).ImageId
    /\ lk.args.region # "" =>
           /\ Enumerations = <<>>
           /\ lk.amis.keys \cup lk.metadata.keys \cup lk.result.keys \subseteq {lk.args.region}

\* C8, its case: a lookup over the enumerated regions has returned a mapping
\* that holds some regions and lacks others, which failed or found nothing.
C8_Witness ==
    /\ lk.pc = "returned"
    /\ lk.args.region = ""
    /\ lk.result.keys # {}
    /\ \E i \in 1..Len(ImageQueries) :
           /\ ImageQueries[i].answer = "clienterror"
           /\ ImageQueries[i].region \notin lk.result.keys

\* The iterations of the loop that have run to their end.
Finished == 1..(IF lk.idx = 0 THEN 0 ELSE lk.idx - 1)

\* The image queries made for a region.
QueriesOf(region) == SelectSeq(ImageQueries, LAMBDA e : e.region = region)

\* The regions are taken in the order enumerated, a client is asked for each
\* in turn, no client serves two regions, and a query follows at once the
\* acquisition of the client it uses.
SequentialVisit ==
    /\ Len(LoopSessions) \in {Cardinality(Finished), Cardinality(Finished) + 1}
    /\ Len(LoopSessions) <= Len(lk.regions)
    /\ \A i \in 1..Len(LoopSessions) :
           /\ LoopSessions[i].service = "ec2"
           /\ LoopSessions[i].region = lk.regions[i]
           /\ LoopSessions[i].profile = lk.profile
    /\ \A i, j \in 1..Len(LoopSessions) :
           (LoopSessions[i].id # 0 /\ LoopSessions[i].id = LoopSessions[j].id) => i = j
    /\ \A k \in 1..Len(lk.log) :
           lk.log[k].ev = "images" =>
               /\ k > 1
               /\ lk.log[k - 1].ev = "session"
               /\ lk.log[k - 1].for = "images"
               /\ lk.log[k - 1].region = lk.log[k].region
               /\ lk.log[k - 1].id = lk.log[k].id
               /\ lk.log[k].id # 0
    /\ \A r \in Regions : Len(QueriesOf(r)) <= 1

\* C9: without a region argument the regions are visited in the order
\* enumerated; for each region visited a new session for ('ec2', region,
\* profile) is acquired (profile as the loop holds it: the one given, or
\* 'default' in amazonlinux2 when that one is absent or empty) and then exactly
\* one image query is issued, region i finished before region i+1 starts; no
\* session is reused and no region is queried twice.
C9_OneSessionOneQuery ==
    lk.args.region = "" =>
        /\ SequentialVisit
        /\ lk.profile = (IF lk.fn = "amazonlinux2" /\ ~Truthy(lk.args.profile)
                            /\ LoopSessions # <<>>
                         THEN Default ELSE lk.args.profile)
        /\ \A i \in Finished :
               /\ LoopSessions[i].id # 0
               /\ Len(QueriesOf(lk.regions[i])) = 1

\* C9, its case: three enumerated regions, each visited with its own client
\* and queried once, and the mapping returned.
C9_Witness ==
    /\ lk.pc = "returned"
    /\ lk.args.region = ""
    /\ Len(lk.regions) = 3
    /\ Len(ImageQueries) = 3
    /\ Cardinality({LoopSessions[i].id : i \in 1..Len(LoopSessions)}) = 3

=============================================================================
